---- MODULE Spec2Model ----
(***************************************************************************)
(* Appointment API: the list / detail / create / report views of           *)
(* src/src/api/appointments/views.py over the appointment table of         *)
(* migrations/0002_initial.py and the shared key-value cache.              *)
(*                                                                         *)
(* Spec       one request at a time, each handler one atomic action;       *)
(*            every list request, rows that differ in their doctor.        *)
(* SpecStore  one request at a time, the writes and the report; rows       *)
(*            that differ in every field.                                  *)
(* SpecConc   list and delete requests split into their cache and table    *)
(*            steps, interleaved.                                          *)
(*                                                                         *)
(* store     the appointment table                                         *)
(* nextId    the next primary key                                          *)
(* cache     the list cache: key -> entry                                  *)
(* resp      the request last answered and its response                    *)
(* computed  history of the list cache (see below)                         *)
(* inflight  the handler position of each concurrent request               *)
(* gone      ids whose delete request has completed (SpecConc)             *)
(***************************************************************************)
EXTENDS Integers, Sequences, FiniteSets, TLC

VARIABLES store, nextId, cache, resp, computed, inflight, gone

vars == <<store, nextId, cache, resp, computed, inflight, gone>>

----------------------------------------------------------------------------
(* Bounds of the model *)

MaxId == 2          \* appointment ids are 1..MaxId
MaxSlot == 2        \* scheduled_at ranges over the instants 0..MaxSlot
SlotsPerDay == 2    \* instants per calendar date
TickStep == 150     \* seconds that pass in one step of the clock
MaxProcs == 2       \* concurrent requests in flight (SpecConc)

(* Program constants *)

CacheTimeout == 300     \* cache.set(..., timeout=300)
DefaultLimit == "10"    \* query_params.get('limit', 10), as formatted in the key
DefaultOffset == "0"    \* query_params.get('offset', 0), as formatted in the key

----------------------------------------------------------------------------
(* Identities: rows of AUTH_USER_MODEL, external to the component *)

Doctors == {"dana", "dev"}
Patients == {"pat"}
Users == Doctors \cup Patients \cup {"root"}

IsSuperuser(u) == u = "root"
IsStaff(u) == u = "root"

Slots == 0 .. MaxSlot
Ids == 1 .. MaxId

\* scheduled_at__date
DateOf(t) == t \div SlotsPerDay

----------------------------------------------------------------------------
(* Query parameters are text; an absent parameter is None *)

NoParam == "<none>"

\* Python truthiness of a query parameter: None and '' are falsy
StrTruthy(s) == s /= NoParam /\ s /= ""

\* int(text) for the texts requests carry, -1 where int() raises
IntOf(s) ==
    CASE s = "0" -> 0
      [] s = "00" -> 0
      [] s = "1" -> 1
      [] s = "2" -> 2
      [] s = "10" -> 10
      [] OTHER -> -1

NoQuery ==
    [limit |-> NoParam, offset |-> NoParam,
     doctor_name |-> NoParam, date |-> NoParam, is_completed |-> NoParam]

\* views.py:40-41
PaginationKey(q) ==
    "limit=" \o (IF q.limit = NoParam THEN DefaultLimit ELSE q.limit)
        \o "&offset=" \o (IF q.offset = NoParam THEN DefaultOffset ELSE q.offset)

CacheKey(q) == "appointments:" \o PaginationKey(q)

\* a filter test that overlooks is_completed
HasFilterNoCompleted(q) == StrTruthy(q.doctor_name) \/ StrTruthy(q.date)

\* views.py:43: if doctor_name or date or is_completed
HasFilter(q) ==
    StrTruthy(q.doctor_name) \/ StrTruthy(q.date) \/ StrTruthy(q.is_completed)

----------------------------------------------------------------------------
(* The appointment table *)

\* a table without the constraint
UniqueTogetherOff(table) == TRUE

\* unique_together = {('doctor', 'scheduled_at')}: the constraint a write must keep
UniqueTogether(table) ==
    \A a \in table : \A b \in table :
        a.id /= b.id => ~(a.doctor = b.doctor /\ a.scheduled_at = b.scheduled_at)

\* the rows of a queryset in primary-key order (models.py is not among the
\* sources; no order_by is applied in the views)
RECURSIVE OrderById(_)
OrderById(S) ==
    IF S = {} THEN <<>>
    ELSE LET a == CHOOSE x \in S : \A y \in S : x.id <= y.id
         IN <<a>> \o OrderById(S \ {a})

\* AppointmentFilter / AppointmentReportFilter (filters.py is not among the
\* sources; the three parameters are those the specification document names):
\* an empty or absent value filters nothing
FilterSet(S, q) ==
    {a \in S :
        /\ StrTruthy(q.doctor_name) => a.doctor = q.doctor_name
        /\ StrTruthy(q.date) => DateOf(a.scheduled_at) = IntOf(q.date)
        /\ StrTruthy(q.is_completed) => a.is_completed = (q.is_completed = "true")}

\* AppointmentListView.get_queryset
VisibleTo(table, u) ==
    IF IsSuperuser(u) THEN table
    ELSE {a \in table : a.doctor = u \/ a.patient = u}

\* Limit/offset pagination as the specification document describes it (the
\* paginator is configured outside the sources): get_limit / get_offset /
\* paginate_queryset of LimitOffsetPagination, its default limit the 10 of the key
PageLimit(q) ==
    IF q.limit /= NoParam /\ IntOf(q.limit) > 0 THEN IntOf(q.limit)
    ELSE IntOf(DefaultLimit)

PageOffset(q) ==
    IF q.offset /= NoParam /\ IntOf(q.offset) >= 0 THEN IntOf(q.offset)
    ELSE IntOf(DefaultOffset)

Min(a, b) == IF a <= b THEN a ELSE b

\* response.data of a paginated list: count and the page of serialized rows
Paginate(rows, q) ==
    LET n == Len(rows)
        off == PageOffset(q)
    IN [count |-> n,
        results |-> IF n = 0 \/ off > n THEN <<>>
                    ELSE SubSeq(rows, off + 1, Min(off + PageLimit(q), n))]

\* super().list(request): filter_queryset(get_queryset()), paginate, serialize
ListResponse(table, u, q) == Paginate(OrderById(FilterSet(VisibleTo(table, u), q)), q)

----------------------------------------------------------------------------
(* The cache: key -> [data, ttl, by, q]; by and q record who stored the    *)
(* entry and for which request                                             *)

None == [count |-> -1, results |-> <<>>]

\* cache.get(key): None on a missing or expired key
CacheGet(c, key) == IF key \in DOMAIN c THEN c[key].data ELSE None

\* a test that never takes the cached value
PyTruthyNever(v) == FALSE

\* views.py:47, `if cached_response:`: None is falsy; the data of a paginated
\* response is a mapping with count and results, truthy even when results is empty
PyTruthy(v) == v /= None

\* cache.set(key, data, timeout)
CacheSet(c, key, data, timeout, u, q) ==
    [k \in DOMAIN c \cup {key} |->
        IF k = key THEN [data |-> data, ttl |-> timeout, by |-> u, q |-> q]
        ELSE c[k]]

MatchesPattern(key) == Len(key) >= 13 /\ SubSeq(key, 1, 13) = "appointments:"

\* an invalidation that removes nothing
DeletePatternNoop(c) == c

\* cache.delete_pattern('appointments:*')
DeletePattern(c) == [k \in {x \in DOMAIN c : ~MatchesPattern(x)} |-> c[k]]

\* entries age; the backend drops them when their timeout has passed
Expire(c) ==
    [k \in {x \in DOMAIN c : c[x].ttl > TickStep} |->
        [c[k] EXCEPT !.ttl = c[k].ttl - TickStep]]

EmptyCache == [k \in {} |-> None]

----------------------------------------------------------------------------
(* Responses *)

NoAppt == [id |-> 0, doctor |-> "", patient |-> "", scheduled_at |-> 0,
           is_completed |-> FALSE]

NoResp ==
    [op |-> "none", user |-> "", q |-> NoQuery, id |-> 0, status |-> "",
     data |-> None, rows |-> <<>>, fromCache |-> FALSE, target |-> NoAppt]

Resp(op, u, status) == [NoResp EXCEPT !.op = op, !.user = u, !.status = status]

----------------------------------------------------------------------------
(* History of the list cache, kept for the properties: for each key, the   *)
(* value of the last computation that was stored, the seconds left of the  *)
(* 300 s after it, and whether a delete has completed since                *)

NoHistory == [k \in {} |-> [data |-> None, left |-> 0, purged |-> FALSE]]

Remember(h, key, data) ==
    [k \in DOMAIN h \cup {key} |->
        IF k = key THEN [data |-> data, left |-> CacheTimeout, purged |-> FALSE]
        ELSE h[k]]

Age(h) ==
    [k \in {x \in DOMAIN h : h[x].left > TickStep} |->
        [h[k] EXCEPT !.left = h[k].left - TickStep]]

MarkPurged(h) == [k \in DOMAIN h |-> [h[k] EXCEPT !.purged = TRUE]]

----------------------------------------------------------------------------
(* Permissions *)

\* IsAppointmentOwnerOrSuperuser.has_object_permission (permissions.py is not
\* among the sources): the appointment's doctor, its patient, or a superuser
OwnerOrSuperuser(u, a) == IsSuperuser(u) \/ a.doctor = u \/ a.patient = u

\* IsAdminUser.has_permission
AdminUser(u) == IsStaff(u)

Lookup(table, id) == {a \in table : a.id = id}

----------------------------------------------------------------------------
(* Requests in flight (SpecConc): where each worker is in its handler *)

Procs == 1 .. MaxProcs

IdleProc == [pc |-> "idle", user |-> "", q |-> NoQuery, id |-> 0, page |-> None]

AllIdle == \A p \in Procs : inflight[p].pc = "idle"

----------------------------------------------------------------------------
(* Requests handled one at a time *)

Init ==
    /\ store = {}
    /\ nextId = 1
    /\ cache = EmptyCache
    /\ resp = NoResp
    /\ computed = NoHistory
    /\ inflight = [p \in Procs |-> IdleProc]
    /\ gone = {}

\* the pagination parameters of a request, which are all the cache key is made of
PageOf(q) == [NoQuery EXCEPT !.limit = q.limit, !.offset = q.offset]

\* AppointmentListView.list
ListAppointments(u, q) ==
    LET key == CacheKey(q)
        cached == CacheGet(cache, key)
        fresh == ListResponse(store, u, q)
        r == [Resp("list", u, "ok") EXCEPT !.q = q]
    IN /\ IF HasFilter(q)
          THEN /\ resp' = [r EXCEPT !.data = fresh]
               /\ UNCHANGED <<cache, computed>>
          ELSE IF PyTruthy(cached)
          THEN /\ resp' = [r EXCEPT !.data = cached, !.fromCache = TRUE]
               /\ UNCHANGED <<cache, computed>>
          ELSE /\ cache' = CacheSet(cache, key, fresh, CacheTimeout, u, PageOf(q))
               /\ computed' = Remember(computed, key, fresh)
               /\ resp' = [r EXCEPT !.data = fresh]
       /\ UNCHANGED <<store, nextId, inflight, gone>>

\* AppointmentDetailView, GET
RetrieveAppointment(u, id) ==
    /\ IF Lookup(store, id) = {}
       THEN resp' = [Resp("retrieve", u, "not_found") EXCEPT !.id = id]
       ELSE LET a == CHOOSE x \in Lookup(store, id) : TRUE
            IN IF ~OwnerOrSuperuser(u, a)
               THEN resp' = [Resp("retrieve", u, "permission_denied")
                                EXCEPT !.id = id]
               ELSE resp' = [Resp("retrieve", u, "ok")
                                EXCEPT !.id = id,
                                       !.data = [count |-> 1, results |-> <<a>>]]
    /\ UNCHANGED <<store, nextId, cache, computed, inflight, gone>>

\* serializer.save() of a partial update: the fields given replace the row's
ApplyPatch(a, patch) ==
    [f \in DOMAIN a |-> IF f \in DOMAIN patch THEN patch[f] ELSE a[f]]

\* AppointmentDetailView, PATCH (get_serializer forces partial=True)
UpdateAppointment(u, id, patch) ==
    /\ IF Lookup(store, id) = {}
       THEN /\ resp' = [Resp("update", u, "not_found") EXCEPT !.id = id]
            /\ UNCHANGED store
       ELSE LET a == CHOOSE x \in Lookup(store, id) : TRUE
                b == ApplyPatch(a, patch)
                table == (store \ {a}) \cup {b}
            IN IF ~OwnerOrSuperuser(u, a)
               THEN /\ resp' = [Resp("update", u, "permission_denied")
                                   EXCEPT !.id = id]
                    /\ UNCHANGED store
               ELSE IF ~UniqueTogether(table)
               THEN /\ resp' = [Resp("update", u, "conflict")
                                   EXCEPT !.id = id]
                    /\ UNCHANGED store
               ELSE /\ resp' = [Resp("update", u, "ok")
                                   EXCEPT !.id = id,
                                          !.data = [count |-> 1, results |-> <<b>>]]
                    /\ store' = table
    /\ UNCHANGED <<nextId, cache, computed, inflight, gone>>

\* a delete that invalidates before the lookup and permission check of destroy()
DestroyInvalidateFirst(u, id) ==
    /\ cache' = DeletePattern(cache)
    /\ computed' = MarkPurged(computed)
    /\ IF Lookup(store, id) = {}
       THEN /\ resp' = [Resp("delete", u, "not_found") EXCEPT !.id = id]
            /\ UNCHANGED store
       ELSE LET a == CHOOSE x \in Lookup(store, id) : TRUE
            IN IF ~OwnerOrSuperuser(u, a)
               THEN /\ resp' = [Resp("delete", u, "permission_denied")
                                   EXCEPT !.id = id]
                    /\ UNCHANGED store
               ELSE /\ resp' = [Resp("delete", u, "no_content")
                                   EXCEPT !.id = id]
                    /\ store' = store \ {a}
    /\ UNCHANGED <<nextId, inflight, gone>>

\* AppointmentDetailView.delete: super().delete raises on a missing row or a
\* refused permission, and delete_pattern runs only after it returns
DestroyAppointment(u, id) ==
    /\ IF Lookup(store, id) = {}
       THEN /\ resp' = [Resp("delete", u, "not_found") EXCEPT !.id = id]
            /\ UNCHANGED <<store, cache, computed>>
       ELSE LET a == CHOOSE x \in Lookup(store, id) : TRUE
            IN IF ~OwnerOrSuperuser(u, a)
               THEN /\ resp' = [Resp("delete", u, "permission_denied")
                                   EXCEPT !.id = id]
                    /\ UNCHANGED <<store, cache, computed>>
               ELSE /\ resp' = [Resp("delete", u, "no_content")
                                   EXCEPT !.id = id]
                    /\ store' = store \ {a}
                    /\ cache' = DeletePattern(cache)
                    /\ computed' = MarkPurged(computed)
    /\ UNCHANGED <<nextId, inflight, gone>>

\* AppointmentCreateView, POST
CreateAppointment(u, d, p, t) ==
    LET a == [id |-> nextId, doctor |-> d, patient |-> p, scheduled_at |-> t,
              is_completed |-> FALSE]
        r == [Resp("create", u, "created") EXCEPT !.target = a]
    IN /\ IF ~AdminUser(u)
          THEN /\ resp' = [r EXCEPT !.status = "permission_denied"]
               /\ UNCHANGED <<store, nextId>>
          ELSE IF ~UniqueTogether(store \cup {a})
          THEN /\ resp' = [r EXCEPT !.status = "conflict"]
               /\ UNCHANGED <<store, nextId>>
          ELSE /\ nextId <= MaxId
               /\ resp' = [r EXCEPT !.id = nextId,
                                    !.data = [count |-> 1, results |-> <<a>>]]
               /\ store' = store \cup {a}
               /\ nextId' = nextId + 1
       /\ UNCHANGED <<cache, computed, inflight, gone>>

\* the keys of a GROUP BY in ascending order
RECURSIVE Ascending(_)
Ascending(K) ==
    IF K = {} THEN <<>>
    ELSE LET m == CHOOSE x \in K : \A y \in K : x <= y
         IN <<m>> \o Ascending(K \ {m})

\* a grouping by F('scheduled_at'): one group per instant instead of per date
ReportRowsByInstant(S) ==
    LET keys == Ascending({a.scheduled_at : a \in S})
    IN [i \in 1 .. Len(keys) |->
            [scheduled_date |-> DateOf(keys[i]),
             count |-> Cardinality({a \in S : a.scheduled_at = keys[i]})]]

\* values(scheduled_date=F('scheduled_at__date')).annotate(count=Count('id'))
ReportRows(S) ==
    LET keys == Ascending({DateOf(a.scheduled_at) : a \in S})
    IN [i \in 1 .. Len(keys) |->
            [scheduled_date |-> keys[i],
             count |-> Cardinality({a \in S : DateOf(a.scheduled_at) = keys[i]})]]

\* AppointmentReportView, GET
ReportAppointments(u, q) ==
    /\ IF ~AdminUser(u)
       THEN resp' = [Resp("report", u, "permission_denied") EXCEPT !.q = q]
       ELSE resp' = [Resp("report", u, "ok")
                        EXCEPT !.q = q, !.rows = ReportRows(FilterSet(store, q))]
    /\ UNCHANGED <<store, nextId, cache, computed, inflight, gone>>

\* time passes: no request is being answered
Tick ==
    /\ cache /= EmptyCache \/ computed /= NoHistory \/ resp /= NoResp
    /\ cache' = Expire(cache)
    /\ computed' = Age(computed)
    /\ resp' = NoResp
    /\ UNCHANGED <<store, nextId, inflight, gone>>

----------------------------------------------------------------------------
(* Inputs of the store-centred specification: every field of a row varies, *)
(* requests come from a patient and from the administrator                 *)

Requesters == {"pat", "root"}

ReportQueries ==
    {NoQuery,
     [NoQuery EXCEPT !.doctor_name = "dana"],
     [NoQuery EXCEPT !.date = "0"],
     [NoQuery EXCEPT !.date = "1", !.is_completed = "false"],
     [NoQuery EXCEPT !.is_completed = "true"]}

Patches ==
    {[doctor |-> d] : d \in Doctors}
        \cup {[scheduled_at |-> t] : t \in Slots}
        \cup {[is_completed |-> TRUE]}

NextStore ==
    \/ \E u \in Requesters, d \in Doctors, p \in Patients, t \in Slots :
            CreateAppointment(u, d, p, t)
    \/ \E u \in Requesters, id \in Ids, patch \in Patches :
            UpdateAppointment(u, id, patch)
    \/ \E u \in Requesters, id \in Ids : DestroyAppointment(u, id)
    \/ \E u \in Requesters, q \in ReportQueries : ReportAppointments(u, q)

SpecStore == Init /\ [][NextStore]_vars

----------------------------------------------------------------------------
(* Inputs of the cache-centred specification: rows differ in their doctor   *)
(* only, requests come from a doctor and from the administrator            *)

Callers == {"dana", "root"}

Unfiltered ==
    {NoQuery, [NoQuery EXCEPT !.offset = "00"]}

Filtered ==
    {[NoQuery EXCEPT !.doctor_name = "dana"],
     [NoQuery EXCEPT !.limit = "1", !.offset = "1", !.date = "0"],
     [NoQuery EXCEPT !.limit = "1", !.is_completed = "false"]}

\* a filter parameter given with an empty value
EmptyFilter == {[NoQuery EXCEPT !.doctor_name = ""]}

Queries == Unfiltered \cup Filtered \cup EmptyFilter

Next ==
    \/ \E u \in Callers, q \in Queries : ListAppointments(u, q)
    \/ \E u \in Callers, d \in Doctors, p \in Patients :
            CreateAppointment(u, d, p, 0)
    \/ \E u \in Callers, id \in Ids : RetrieveAppointment(u, id)
    \/ \E u \in Callers, id \in Ids :
            UpdateAppointment(u, id, [doctor |-> "dev"])
    \/ \E u \in Callers, id \in Ids : DestroyAppointment(u, id)
    \/ \E u \in Callers : ReportAppointments(u, NoQuery)
    \/ Tick

Spec == Init /\ [][Next]_vars

----------------------------------------------------------------------------
(* Concurrent requests: the cache and the table are shared and unlocked,   *)
(* so the reads and writes of one handler interleave with another's.       *)
(* The history `computed` and the response `resp` are those of the         *)
(* one-at-a-time specification and are not kept here.                      *)

\* AppointmentListView.list up to cache.get: a hit answers at once
ListBegin(p, u, q) ==
    /\ inflight[p].pc = "idle"
    /\ ~HasFilter(q)
    /\ IF PyTruthy(CacheGet(cache, CacheKey(q)))
       THEN UNCHANGED inflight
       ELSE inflight' = [inflight EXCEPT ![p] =
                            [IdleProc EXCEPT !.pc = "query", !.user = u, !.q = q]]
    /\ UNCHANGED <<store, nextId, cache, resp, computed, gone>>

\* super().list(request): the table is read
ListQuery(p) ==
    /\ inflight[p].pc = "query"
    /\ inflight' = [inflight EXCEPT ![p] =
            [@ EXCEPT !.pc = "write",
                      !.page = ListResponse(store, inflight[p].user, inflight[p].q)]]
    /\ UNCHANGED <<store, nextId, cache, resp, computed, gone>>

\* cache.set(cache_key, response.data, timeout=300)
ListWrite(p) ==
    /\ inflight[p].pc = "write"
    /\ cache' = CacheSet(cache, CacheKey(inflight[p].q), inflight[p].page,
                         CacheTimeout, inflight[p].user, PageOf(inflight[p].q))
    /\ inflight' = [inflight EXCEPT ![p] = IdleProc]
    /\ UNCHANGED <<store, nextId, resp, computed, gone>>

\* AppointmentDetailView.delete, super().delete: the row is removed
DeleteBegin(p, u, id) ==
    /\ inflight[p].pc = "idle"
    /\ IF Lookup(store, id) = {}
       THEN UNCHANGED <<store, inflight>>
       ELSE LET a == CHOOSE x \in Lookup(store, id) : TRUE
            IN IF ~OwnerOrSuperuser(u, a)
               THEN UNCHANGED <<store, inflight>>
               ELSE /\ store' = store \ {a}
                    /\ inflight' = [inflight EXCEPT ![p] =
                            [IdleProc EXCEPT !.pc = "invalidate", !.user = u,
                                             !.id = id]]
    /\ UNCHANGED <<nextId, cache, resp, computed, gone>>

\* AppointmentDetailView.delete, cache.delete_pattern: the delete completes
DeleteInvalidate(p) ==
    /\ inflight[p].pc = "invalidate"
    /\ cache' = DeletePattern(cache)
    /\ gone' = gone \cup {inflight[p].id}
    /\ inflight' = [inflight EXCEPT ![p] = IdleProc]
    /\ UNCHANGED <<store, nextId, resp, computed>>

NextConc ==
    \/ \E p \in Procs, u \in Callers, q \in Unfiltered : ListBegin(p, u, q)
    \/ \E p \in Procs : ListQuery(p)
    \/ \E p \in Procs : ListWrite(p)
    \/ \E p \in Procs, u \in Callers, id \in Ids : DeleteBegin(p, u, id)
    \/ \E p \in Procs : DeleteInvalidate(p)
    \/ \E d \in Doctors, pt \in Patients : CreateAppointment("root", d, pt, 0)

SpecConc == Init /\ [][NextConc]_vars

----------------------------------------------------------------------------
(* Properties *)

ListedRows(r) == {r.data.results[i] : i \in 1 .. Len(r.data.results)}

\* C1: every list response to a non-superuser holds only appointments whose
\* doctor or patient is that identity, whether computed or served from the cache
C1_NonSuperuserSeesOnlyOwn ==
    (resp.op = "list" /\ ~IsSuperuser(resp.user))
        => \A a \in ListedRows(resp) : a.doctor = resp.user \/ a.patient = resp.user

\* C2: no two distinct stored appointments have the same (doctor, scheduled_at)
C2_DoctorInstantUnique ==
    \A a \in store : \A b \in store :
        a /= b => <<a.doctor, a.scheduled_at>> /= <<b.doctor, b.scheduled_at>>

\* C2 witness: a partial update was refused for a duplicate pair while two rows
\* are stored
C2_Witness ==
    /\ resp.op = "update" /\ resp.status = "conflict"
    /\ Cardinality(store) = 2

\* C3: a create by an administrator for a (doctor, scheduled_at) pair a stored
\* appointment already has ends in a conflict and leaves the table as it was
C3_DuplicateCreateConflicts ==
    [][(/\ resp'.op = "create"
        /\ IsStaff(resp'.user)
        /\ \E a \in store : /\ a.doctor = resp'.target.doctor
                            /\ a.scheduled_at = resp'.target.scheduled_at)
        => (resp'.status = "conflict" /\ store' = store /\ nextId' = nextId)]_vars

\* C3 witness: an administrator's create was refused for a duplicate pair
C3_Witness ==
    /\ resp.op = "create" /\ resp.status = "conflict" /\ IsStaff(resp.user)
    /\ \E a \in store : /\ a.doctor = resp.target.doctor
                        /\ a.scheduled_at = resp.target.scheduled_at

C4_NoFilter(q) ==
    \A f \in {"doctor_name", "date", "is_completed"} : q[f] \in {NoParam, ""}

\* C4 as claimed: an unfiltered list request made less than 300 s after a
\* computation for the same limit and offset was stored returns that stored value
C4_ServedWithinFiveMinutes ==
    [][(resp'.op = "list" /\ C4_NoFilter(resp'.q))
        => LET k == CacheKey(resp'.q)
           IN k \in DOMAIN computed => resp'.data = computed[k].data]_vars

\* C4 as amended: an unfiltered list request whose limit and offset text gives
\* the key of a computation stored less than 300 s ago, with no delete completed
\* since, is served exactly that value; with no computation stored for the key in
\* the last 300 s the response is not served from the cache but computed from the
\* table
C4_ServedUnlessDeleted ==
    [][(resp'.op = "list" /\ C4_NoFilter(resp'.q))
        => LET k == CacheKey(resp'.q)
           IN /\ (k \in DOMAIN computed /\ ~computed[k].purged)
                    => (resp'.fromCache /\ resp'.data = computed[k].data)
              /\ (k \notin DOMAIN computed)
                    => (/\ ~resp'.fromCache
                        /\ resp'.data = ListResponse(store, resp'.user, resp'.q))]_vars

\* C4 witness: a page stored 150 s ago and no longer what the table gives (here
\* an empty page stored before the first create) was served
C4_Witness ==
    /\ resp.op = "list" /\ resp.fromCache
    /\ resp.data.count = 0
    /\ CacheKey(resp.q) \in DOMAIN cache
    /\ cache[CacheKey(resp.q)].ttl < CacheTimeout
    /\ resp.data /= ListResponse(store, resp.user, resp.q)

\* C5: when a delete has removed an appointment no key that was cached before it
\* is left, and a list request that follows it is computed from the table
C5_DeleteInvalidatesAll ==
    [][/\ (resp'.op = "delete" /\ resp'.status = "no_content")
            => \A k \in DOMAIN cache : k \notin DOMAIN cache'
       /\ (resp.op = "delete" /\ resp.status = "no_content" /\ resp'.op = "list")
            => (/\ ~resp'.fromCache
                /\ resp'.data = ListResponse(store, resp'.user, resp'.q))]_vars

\* C5 witness: a delete has just completed and both keys stored before it, still
\* inside their 300 s, are gone
C5_Witness ==
    /\ resp.op = "delete" /\ resp.status = "no_content"
    /\ Cardinality(DOMAIN computed) = 2
    /\ \A k \in DOMAIN computed : computed[k].purged /\ k \notin DOMAIN cache

C6_SomeFilter(q) ==
    \E f \in {"doctor_name", "date", "is_completed"} : q[f] \notin {NoParam, ""}

\* C6: a list request with a non-empty filter leaves the cache as it was and
\* answers with what the table gives for the request
C6_FilteredBypassesCache ==
    [][(resp'.op = "list" /\ C6_SomeFilter(resp'.q))
        => (/\ cache' = cache
            /\ ~resp'.fromCache
            /\ resp'.data = ListResponse(store, resp'.user, resp'.q))]_vars

\* C6 witness: a filtered request was answered from the table while the cache
\* held another value under the key of its limit and offset
C6_Witness ==
    /\ resp.op = "list" /\ C6_SomeFilter(resp.q)
    /\ CacheKey(resp.q) \in DOMAIN cache
    /\ cache[CacheKey(resp.q)].data /= resp.data
    /\ resp.data.count > 0

C7_Unauthorized(r, table) ==
    \/ /\ r.op \in {"retrieve", "update", "delete"}
       /\ \E a \in table : /\ a.id = r.id
                           /\ r.user /= a.doctor /\ r.user /= a.patient
                           /\ ~IsSuperuser(r.user)
    \/ r.op \in {"create", "report"} /\ ~IsStaff(r.user)

\* C7: an unauthorized request ends in permission denied, and a request that
\* ends so leaves the table and the cache as they were
C7_DeniedHasNoEffect ==
    [][/\ C7_Unauthorized(resp', store) => resp'.status = "permission_denied"
       /\ resp'.status = "permission_denied"
            => (store' = store /\ nextId' = nextId /\ cache' = cache)]_vars

\* C7 witness: a delete was refused while the cache held an entry
\* and the appointment is still stored
C7_Witness ==
    /\ resp.op = "delete" /\ resp.status = "permission_denied"
    /\ cache /= EmptyCache
    /\ Lookup(store, resp.id) /= {}

RECURSIVE C8_Sum(_)
C8_Sum(rows) == IF rows = <<>> THEN 0 ELSE Head(rows).count + C8_Sum(Tail(rows))

C9_CacheCoherent ==
    \A k \in DOMAIN cache :
        cache[k].data = ListResponse(store, cache[k].by, cache[k].q)

\* C10: once a delete has completed and no request is in flight, no cache entry
\* holds the deleted appointment
C10_NoDeletedRowCached ==
    AllIdle
        => \A k \in DOMAIN cache :
              \A i \in 1 .. Len(cache[k].data.results) :
                  cache[k].data.results[i].id \notin gone

====
